---- MODULE Spec2Model ----
(***************************************************************************)
(* PyGeoTess, geotess/grid.py: the Grid accessor over the native           *)
(* tessellation engine (geotess.libgeotess.GeoTessGrid).                   *)
(*                                                                         *)
(* The engine itself (libgeotess) and the grid files it loads are not part *)
(* of grid.py; they are modelled from the specification's data model       *)
(* (VertexStore, TriangleStore, LevelIndex, GridBuilder) and from the      *)
(* names of the engine methods grid.py calls.                              *)
(***************************************************************************)
EXTENDS Integers, Sequences, FiniteSets, TLC

\* ------------------------------------------------------------------------
\* Bounds of the model
\* ------------------------------------------------------------------------
\* engine instances the heap can hold
MaxEngines == 2
\* concurrent readers of one Grid
NReaders == 2

\* ------------------------------------------------------------------------
\* GridBuilder: base shapes and quartering (specification, section 4.4)
\* ------------------------------------------------------------------------
\* refinement depth of the example scenario {baseShape: icosahedron, maxLevel: 2}
IcoMaxLevel == 2

\* the 20 triangles of the icosahedron over vertices 0..11
IcoBase ==
  << <<0,11,5>>, <<0,5,1>>, <<0,1,7>>, <<0,7,10>>, <<0,10,11>>,
     <<1,5,9>>, <<5,11,4>>, <<11,10,2>>, <<10,7,6>>, <<7,1,8>>,
     <<3,9,4>>, <<3,4,2>>, <<3,2,6>>, <<3,6,8>>, <<3,8,9>>,
     <<4,9,5>>, <<2,4,11>>, <<6,2,10>>, <<8,6,7>>, <<9,8,1>> >>

\* the 4 triangles of the tetrahedron over vertices 0..3
TetraBase == << <<0,1,2>>, <<0,3,1>>, <<0,2,3>>, <<1,3,2>> >>

\* an edge as the ordered pair of its vertex indices
Edge(a, b) == IF a < b THEN <<a, b>> ELSE <<b, a>>

EdgesOf(tris) ==
  UNION { { Edge(tris[i][1], tris[i][2]), Edge(tris[i][2], tris[i][3]),
            Edge(tris[i][3], tris[i][1]) } : i \in DOMAIN tris }

EdgeLess(f, e) == f[1] < e[1] \/ (f[1] = e[1] /\ f[2] < e[2])

\* VertexStore.addVertex with dedup: one midpoint vertex per edge, appended
\* after the nv existing vertices
MidpointIndex(edges, nv) ==
  [e \in edges |-> nv + Cardinality({f \in edges : EdgeLess(f, e)})]

\* the 4 children of a triangle: 3 corner triangles and the centre one
Quarter(t, mid) ==
  LET ab == mid[Edge(t[1], t[2])]
      bc == mid[Edge(t[2], t[3])]
      ca == mid[Edge(t[3], t[1])]
  IN  << <<t[1], ab, ca>>, <<ab, t[2], bc>>, <<ca, bc, t[3]>>, <<ab, bc, ca>> >>

\* one refinement step: every triangle of the level is quartered, in order
Refine(lv) ==
  LET edges == EdgesOf(lv.tris)
      mid   == MidpointIndex(edges, lv.nv)
  IN  [tris |-> [j \in 1..(4 * Len(lv.tris)) |->
                   Quarter(lv.tris[((j - 1) \div 4) + 1], mid)[((j - 1) % 4) + 1]],
       nv   |-> lv.nv + Cardinality(edges)]

\* levels 0..maxLevel of one tessellation, as a sequence of levels
RECURSIVE BuildLevels(_, _)
BuildLevels(lv, maxLevel) ==
  IF maxLevel = 0 THEN <<lv>>
  ELSE <<lv>> \o BuildLevels(Refine(lv), maxLevel - 1)

IcoLevels == BuildLevels([tris |-> IcoBase, nv |-> 12], IcoMaxLevel)
TetraLevels == BuildLevels([tris |-> TetraBase, nv |-> 4], 1)

\* ------------------------------------------------------------------------
\* Grid files: what loadGrid reads (VertexStore / TriangleStore / LevelIndex)
\* ------------------------------------------------------------------------
\* a grid file's tessellation levels in the order the builder appended them
IcoEntries ==
  [k \in 1..Len(IcoLevels) |->
     [tess |-> 0, level |-> k - 1, tris |-> IcoLevels[k].tris]]

\* two tessellations over one vertex store: a tetrahedron refined once, and
\* the bare tetrahedron
MultiEntries ==
  << [tess |-> 0, level |-> 0, tris |-> TetraLevels[1].tris],
     [tess |-> 0, level |-> 1, tris |-> TetraLevels[2].tris],
     [tess |-> 1, level |-> 0, tris |-> TetraLevels[1].tris] >>

\* index of the first triangle of the k-th appended level
RECURSIVE Offset(_, _)
Offset(entries, k) ==
  IF k = 1 THEN 0 ELSE Offset(entries, k - 1) + Len(entries[k - 1].tris)

\* TriangleStore: all triangles, level after level (triangle id n is at n+1)
RECURSIVE AllTriangles(_, _)
AllTriangles(entries, k) ==
  IF k = 0 THEN <<>> ELSE AllTriangles(entries, k - 1) \o entries[k].tris

\* LevelIndex.registerRange: (tess, level) -> (first, lastExclusive)
LevelIndex(entries) ==
  [p \in {<<entries[k].tess, entries[k].level>> : k \in DOMAIN entries} |->
     LET k == CHOOSE j \in DOMAIN entries :
                <<entries[j].tess, entries[j].level>> = p
     IN  <<Offset(entries, k), Offset(entries, k) + Len(entries[k].tris)>>]

\* triangles flagged as outside the model's valid region
MaskedIds(n) == {id \in 0..(n - 1) : id % 4 = 1}

GridContent(entries, nvert, descr) ==
  LET tri == AllTriangles(entries, Len(entries))
  IN  [tri |-> tri, range |-> LevelIndex(entries), nvert |-> nvert,
       masked |-> MaskedIds(Len(tri)), descr |-> descr]

IcoGrid == GridContent(IcoEntries, IcoLevels[Len(IcoLevels)].nv, "GeoTessGrid:ico")
MultiGrid == GridContent(MultiEntries, TetraLevels[2].nv, "GeoTessGrid:multi")

\* an engine instance on which loadGrid never succeeded
EmptyContent ==
  [tri |-> <<>>, range |-> [p \in {} |-> <<0, 0>>], nvert |-> 0,
   masked |-> {}, descr |-> "GeoTessGrid:unloaded"]

IcoPath == "ico.geotess"
MultiPath == "multi.geotess"
MissingPath == "missing.geotess"
NoFile == "<unloaded>"

\* the file system: the paths that hold a readable grid
GridFiles == [p \in {IcoPath, MultiPath} |-> IF p = IcoPath THEN IcoGrid ELSE MultiGrid]

\* ------------------------------------------------------------------------
\* The engine, lib.GeoTessGrid
\* ------------------------------------------------------------------------
ContentOf(engine) ==
  IF engine.file \in DOMAIN GridFiles THEN GridFiles[engine.file] ELSE EmptyContent

Registered(c, tess, level) == <<tess, level>> \in DOMAIN c.range

\* index of the first triangle of the level
getFirstTriangle(c, tess, level) == c.range[<<tess, level>>][1]

\* index of the last triangle of the level
getLastTriangle(c, tess, level) == c.range[<<tess, level>>][2] - 1

getTriangleVertexIndexes(c, id) == c.tri[id + 1]

toString(c) == c.descr

\* lib.GeoTessGrid(): a new instance, nothing loaded
NewEngine == [live |-> TRUE, file |-> NoFile, loads |-> <<>>]

FreeEngine == [live |-> FALSE, file |-> NoFile, loads |-> <<>>]

\* engine.loadGrid(path): the call is logged; the tables are those of the file
loadGrid(engine, path) ==
  [engine EXCEPT !.loads = Append(@, path),
                 !.file = IF path \in DOMAIN GridFiles THEN path ELSE @]

LoadFails(path) == path \notin DOMAIN GridFiles

\* the vertices a level's triangles refer to
ReferencedVertices(c, tess, level) ==
  LET r == c.range[<<tess, level>>]
  IN  {c.tri[n + 1][j] : n \in r[1]..(r[2] - 1), j \in 1..3}

\* ------------------------------------------------------------------------
\* Python values
\* ------------------------------------------------------------------------
\* self._grid = None
NoneRef == 0
NoneArg == "<None>"
\* mutant: "if gridfile is not None:", the empty path is taken for a path
TruthyNotNone(gridfile) == gridfile # NoneArg

\* if gridfile:
Truthy(gridfile) == gridfile \notin {NoneArg, ""}

\* mutant: the range starts one triangle late
PyRangeSkipFirst(a, b) == [i \in 1..(IF b > a + 1 THEN b - a - 1 ELSE 0) |-> a + i]

\* range(a, b)
PyRange(a, b) == [i \in 1..(IF b > a THEN b - a ELSE 0) |-> a + i - 1]

EngineIds == 1..MaxEngines
GridfileArgs == {NoneArg, "", IcoPath, MultiPath, MissingPath}
MaskedArgs == {"None", "True", "False"}
RegisteredPairs == UNION {DOMAIN GridFiles[p].range : p \in DOMAIN GridFiles}
Max(S) == CHOOSE m \in S : \A n \in S : n <= m
\* the registered indices and one past them
TessArgs == 0..(Max({p[1] : p \in RegisteredPairs}) + 1)
LevelArgs == 0..(Max({p[2] : p \in RegisteredPairs}) + 1)

VARIABLES
  engines,      \* the heap of lib.GeoTessGrid instances
  constructed,  \* a Grid object exists
  self_grid,    \* its _grid attribute: NoneRef or an engine id
  last,         \* the last call on the Grid and its outcome
  pin,          \* an earlier triangles() result, kept for comparison
  rd            \* the concurrent readers' frames

vars == <<engines, constructed, self_grid, last, pin, rd>>

NoCall ==
  [op |-> "none", file |-> NoneArg, g |-> NoneRef, tess |-> 0, level |-> 0,
   masked |-> "None", outcome |-> "none", err |-> "", value |-> <<>>, text |-> ""]

NoPin == [set |-> FALSE, tess |-> 0, level |-> 0, value |-> <<>>, others |-> FALSE]

IdleFrame ==
  [pc |-> "idle", tess |-> 0, level |-> 0, first |-> 0, last |-> 0, ids |-> <<>>,
   i |-> 0, arr |-> <<>>, reads |-> <<>>, err |-> ""]

Readers == 1..NReaders

\* the engine self._grid refers to
SelfContent == ContentOf(engines[self_grid])

\* the lowest free slot of the heap
FreshId == CHOOSE e \in EngineIds : ~engines[e].live /\ \A f \in 1..(e - 1) : engines[f].live
HeapFull == \A e \in EngineIds : engines[e].live

\* ------------------------------------------------------------------------
\* Grid: constructors
\* ------------------------------------------------------------------------
\* Grid(gridfile).  When loadGrid raises, the exception leaves __init__: no
\* Grid comes to exist and the engine just made is unreferenced and freed.
GridInit(gridfile) ==
  /\ UNCHANGED rd
  /\ IF Truthy(gridfile)
     THEN /\ ~HeapFull
          /\ IF LoadFails(gridfile)
             THEN /\ UNCHANGED <<engines, constructed, self_grid, pin>>
                  /\ last' = [NoCall EXCEPT !.op = "init", !.file = gridfile,
                                            !.outcome = "raise", !.err = "IOError"]
             ELSE /\ engines' = [engines EXCEPT ![FreshId] = loadGrid(NewEngine, gridfile)]
                  /\ constructed' = TRUE
                  /\ self_grid' = FreshId
                  /\ pin' = NoPin
                  /\ last' = [NoCall EXCEPT !.op = "init", !.file = gridfile,
                                            !.g = FreshId, !.outcome = "return"]
     ELSE /\ constructed' = TRUE
          /\ self_grid' = NoneRef
          /\ pin' = NoPin
          /\ UNCHANGED engines
          /\ last' = [NoCall EXCEPT !.op = "init", !.file = gridfile,
                                    !.outcome = "return"]

\* Grid.from_geotessgrid(gtgrid)
from_geotessgrid(gtgrid) ==
  /\ IF gtgrid = NoneRef THEN TRUE ELSE engines[gtgrid].live
  /\ constructed' = TRUE
  /\ self_grid' = gtgrid
  /\ pin' = NoPin
  /\ last' = [NoCall EXCEPT !.op = "from_geotessgrid", !.g = gtgrid,
                            !.outcome = "return"]
  /\ UNCHANGED <<engines, rd>>

\* a caller makes an engine of its own, to wrap it later
CallerEngine(path) ==
  /\ ~HeapFull
  /\ engines' = [engines EXCEPT ![FreshId] =
                   IF path = NoFile THEN NewEngine ELSE loadGrid(NewEngine, path)]
  /\ UNCHANGED <<constructed, self_grid, last, pin, rd>>

\* ------------------------------------------------------------------------
\* Grid: queries
\* ------------------------------------------------------------------------
\* mutant: the array of the previous call is kept and handed out again
TrianglesArrayStale(c, tess, level) ==
  IF last.op = "triangles" /\ last.outcome = "return" THEN last.value
  ELSE [i \in 1..(getLastTriangle(c, tess, level) - getFirstTriangle(c, tess, level)) |->
          getTriangleVertexIndexes(c, getFirstTriangle(c, tess, level) + i - 1)]

\* the array triangles() fills and returns
TrianglesArray(c, tess, level) ==
  LET first_triangle_id == getFirstTriangle(c, tess, level)
      last_triangle_id  == getLastTriangle(c, tess, level)
      triangle_ids      == PyRange(first_triangle_id, last_triangle_id)
  IN  [i \in 1..Len(triangle_ids) |-> getTriangleVertexIndexes(c, triangle_ids[i])]

\* the comparison record after a triangles() call that returned value
PinAfter(tess, level, value) ==
  IF ~pin.set
  THEN {pin, [set |-> TRUE, tess |-> tess, level |-> level, value |-> value,
              others |-> FALSE]}
  ELSE IF pin.tess = tess /\ pin.level = level THEN {pin}
       ELSE {[pin EXCEPT !.others = TRUE]}

PinAfterOther == IF pin.set THEN [pin EXCEPT !.others = TRUE] ELSE pin

\* how a call ends: an exception leaves the handler, or a value is returned
Raise(err) == [outcome |-> "raise", err |-> err, value |-> <<>>]
ReturnValue(value) == [outcome |-> "return", err |-> "", value |-> value]

\* mutant: the engine's NotFound is caught and an empty array returned
TrianglesOutcomeSwallow(tess, level, masked) ==
  IF self_grid = NoneRef THEN Raise("AttributeError")
  ELSE IF ~Registered(SelfContent, tess, level) THEN ReturnValue(<<>>)
  ELSE ReturnValue(TrianglesArray(SelfContent, tess, level))

\* Grid.triangles: None has no getFirstTriangle; the engine's NotFound is not
\* caught; masked is never read
TrianglesOutcome(tess, level, masked) ==
  IF self_grid = NoneRef THEN Raise("AttributeError")
  ELSE IF ~Registered(SelfContent, tess, level) THEN Raise("NotFound")
  ELSE ReturnValue(TrianglesArray(SelfContent, tess, level))

\* Grid.triangles(tess, level, masked)
triangles(tess, level, masked) ==
  /\ constructed
  /\ UNCHANGED <<engines, constructed, self_grid, rd>>
  /\ LET out == TrianglesOutcome(tess, level, masked)
     IN  /\ last' = [NoCall EXCEPT !.op = "triangles", !.tess = tess, !.level = level,
                       !.masked = masked, !.outcome = out.outcome, !.err = out.err,
                       !.value = out.value]
         /\ pin' \in IF out.outcome = "return" THEN PinAfter(tess, level, out.value)
                     ELSE {PinAfterOther}

\* Grid.vertices(tess, level, connected): self.layers does not exist
vertices(tess, level, connected) ==
  /\ constructed
  /\ last' = [NoCall EXCEPT !.op = "vertices", !.tess = tess, !.level = level,
                            !.masked = connected,
                            !.outcome = "raise", !.err = "AttributeError"]
  /\ pin' = PinAfterOther
  /\ UNCHANGED <<engines, constructed, self_grid, rd>>

\* mutant: __str__ loads the grid file again before printing
strReload ==
  /\ constructed
  /\ IF self_grid = NoneRef
     THEN /\ last' = [NoCall EXCEPT !.op = "str", !.outcome = "raise",
                                    !.err = "AttributeError"]
          /\ UNCHANGED engines
     ELSE /\ last' = [NoCall EXCEPT !.op = "str", !.outcome = "return",
                                    !.text = toString(SelfContent)]
          /\ engines' = [engines EXCEPT ![self_grid] = loadGrid(@, @.file)]
  /\ pin' = PinAfterOther
  /\ UNCHANGED <<constructed, self_grid, rd>>

\* mutant: "str(self._grid)", which prints the empty Grid as None
strNone ==
  /\ constructed
  /\ IF self_grid = NoneRef
     THEN last' = [NoCall EXCEPT !.op = "str", !.outcome = "return", !.text = "None"]
     ELSE last' = [NoCall EXCEPT !.op = "str", !.outcome = "return",
                                 !.text = toString(SelfContent)]
  /\ pin' = PinAfterOther
  /\ UNCHANGED <<engines, constructed, self_grid, rd>>

\* Grid.__str__()
str ==
  /\ constructed
  /\ IF self_grid = NoneRef
     THEN last' = [NoCall EXCEPT !.op = "str", !.outcome = "raise",
                                 !.err = "AttributeError"]
     ELSE last' = [NoCall EXCEPT !.op = "str", !.outcome = "return",
                                 !.text = toString(SelfContent)]
  /\ pin' = PinAfterOther
  /\ UNCHANGED <<engines, constructed, self_grid, rd>>

\* ------------------------------------------------------------------------
\* Sequential use of one Grid
\* ------------------------------------------------------------------------
Init ==
  /\ engines = [e \in EngineIds |-> FreeEngine]
  /\ constructed = FALSE
  /\ self_grid = NoneRef
  /\ last = NoCall
  /\ pin = NoPin
  /\ rd = [r \in Readers |-> IdleFrame]

Next ==
  \/ \E gridfile \in GridfileArgs : GridInit(gridfile)
  \/ \E gtgrid \in {NoneRef} \cup EngineIds : from_geotessgrid(gtgrid)
  \/ \E path \in {NoFile, MultiPath} : CallerEngine(path)
  \/ \E tess \in TessArgs, level \in LevelArgs, masked \in MaskedArgs :
       triangles(tess, level, masked)
  \/ \E tess \in TessArgs, level \in LevelArgs, connected \in {"True", "False"} :
       vertices(tess, level, connected)
  \/ str

Spec == Init /\ [][Next]_vars

\* ------------------------------------------------------------------------
\* Concurrent readers: triangles() statement by statement
\* ------------------------------------------------------------------------
\* what np.empty may hold before the rows are written
GarbageRows == {<<0, 0, 0>>, <<-1, -1, -1>>}

\* mutant: one result array for all callers
StoreRowShared(frames, r, i, row) ==
  [q \in DOMAIN frames |->
     IF i + 1 \in DOMAIN frames[q].arr
     THEN [frames[q] EXCEPT !.arr[i + 1] = row] ELSE frames[q]]

\* triangles[i,:] = row, on the caller's own array (i counts from 0)
StoreRow(frames, r, i, row) == [frames EXCEPT ![r].arr[i + 1] = row]

\* triangles(tess, level) is called
Call(r, tess, level) ==
  /\ constructed
  /\ rd[r].pc = "idle"
  /\ rd' = [rd EXCEPT ![r] = [IdleFrame EXCEPT !.pc = "l93", !.tess = tess,
                                               !.level = level]]
  /\ UNCHANGED <<engines, constructed, self_grid, last, pin>>

\* first_triangle_id = self._grid.getFirstTriangle(tess, level)
GetFirst(r) ==
  /\ rd[r].pc = "l93"
  /\ IF self_grid = NoneRef
     THEN rd' = [rd EXCEPT ![r].pc = "raised", ![r].err = "AttributeError"]
     ELSE IF ~Registered(SelfContent, rd[r].tess, rd[r].level)
     THEN rd' = [rd EXCEPT ![r].pc = "raised", ![r].err = "NotFound"]
     ELSE rd' = [rd EXCEPT ![r].pc = "l94",
                   ![r].first = getFirstTriangle(SelfContent, rd[r].tess, rd[r].level)]
  /\ UNCHANGED <<engines, constructed, self_grid, last, pin>>

\* last_triangle_id = self._grid.getLastTriangle(tess, level)
GetLast(r) ==
  /\ rd[r].pc = "l94"
  /\ rd' = [rd EXCEPT ![r].pc = "l95",
              ![r].last = getLastTriangle(SelfContent, rd[r].tess, rd[r].level)]
  /\ UNCHANGED <<engines, constructed, self_grid, last, pin>>

\* triangle_ids = range(first_triangle_id, last_triangle_id)
MakeIds(r) ==
  /\ rd[r].pc = "l95"
  /\ rd' = [rd EXCEPT ![r].pc = "l98", ![r].ids = PyRange(rd[r].first, rd[r].last)]
  /\ UNCHANGED <<engines, constructed, self_grid, last, pin>>

\* triangles = np.empty((len(triangle_ids), 3), dtype=np.int)
Empty(r) ==
  /\ rd[r].pc = "l98"
  /\ \E g \in GarbageRows :
       rd' = [rd EXCEPT ![r].pc = "l99", ![r].i = 0,
                ![r].arr = [k \in 1..Len(rd[r].ids) |-> g]]
  /\ UNCHANGED <<engines, constructed, self_grid, last, pin>>

\* for i, triangle_id in enumerate(triangle_ids):
\*     triangles[i,:] = self._grid.getTriangleVertexIndexes(triangle_id)
LoopRow(r) ==
  /\ rd[r].pc = "l99"
  /\ rd[r].i < Len(rd[r].ids)
  /\ LET i == rd[r].i
         triangle_id == rd[r].ids[i + 1]
         row == getTriangleVertexIndexes(SelfContent, triangle_id)
     IN  rd' = [StoreRow(rd, r, i, row) EXCEPT ![r].i = i + 1,
                  ![r].reads = Append(@, triangle_id)]
  /\ UNCHANGED <<engines, constructed, self_grid, last, pin>>

\* return triangles
Return(r) ==
  /\ rd[r].pc = "l99"
  /\ rd[r].i = Len(rd[r].ids)
  /\ rd' = [rd EXCEPT ![r].pc = "done"]
  /\ UNCHANGED <<engines, constructed, self_grid, last, pin>>

\* the caller is done with the result, or with the exception
Drop(r) ==
  /\ rd[r].pc \in {"done", "raised"}
  /\ rd' = [rd EXCEPT ![r] = IdleFrame]
  /\ UNCHANGED <<engines, constructed, self_grid, last, pin>>

\* one Grid, constructed by Grid(gridfile) before the readers start
InitConc ==
  \E gridfile \in {NoneArg, MultiPath} :
    /\ engines = [e \in EngineIds |->
                    IF e = 1 /\ Truthy(gridfile) THEN loadGrid(NewEngine, gridfile)
                    ELSE FreeEngine]
    /\ constructed = TRUE
    /\ self_grid = IF Truthy(gridfile) THEN 1 ELSE NoneRef
    /\ last = [NoCall EXCEPT !.op = "init", !.file = gridfile,
                 !.g = IF Truthy(gridfile) THEN 1 ELSE NoneRef, !.outcome = "return"]
    /\ pin = NoPin
    /\ rd = [r \in Readers |-> IdleFrame]

NextConc ==
  \E r \in Readers :
    \/ \E tess \in TessArgs, level \in LevelArgs : Call(r, tess, level)
    \/ GetFirst(r)
    \/ GetLast(r)
    \/ MakeIds(r)
    \/ Empty(r)
    \/ LoopRow(r)
    \/ Return(r)
    \/ Drop(r)

SpecConc == InitConc /\ [][NextConc]_vars

\* ------------------------------------------------------------------------
\* Properties
\* ------------------------------------------------------------------------
\* a step that is a query of the Grid (a call leaves its arguments in last)
TrianglesStep == last'.op = "triangles" /\ triangles(last'.tess, last'.level, last'.masked)
VerticesStep == last'.op = "vertices" /\ vertices(last'.tess, last'.level, last'.masked)
StrStep == last'.op = "str" /\ str
Query == TrianglesStep \/ VerticesStep \/ StrStep

\* a step that constructs a Grid
Constructor ==
  \/ last'.op = "init" /\ GridInit(last'.file)
  \/ last'.op = "from_geotessgrid" /\ from_geotessgrid(last'.g)

\* all the triangles of a registered level, in index order
LevelTriangles(c, tess, level) ==
  LET r == c.range[<<tess, level>>]
  IN  [k \in 1..(r[2] - r[1]) |-> c.tri[r[1] + k]]

\* C1: on a loaded grid, triangles(tess, level) of a registered level returns
\* the vertex-index triples in triangle-index order: row i is the engine's
\* triple of triangle getFirstTriangle(tess, level) + i, and the triangle ids
\* were read once each, ascending.
C1_RowsInIndexOrder ==
  \A r \in Readers :
    rd[r].pc = "done" =>
      LET f == getFirstTriangle(SelfContent, rd[r].tess, rd[r].level)
      IN  /\ Len(rd[r].reads) = Len(rd[r].arr)
          /\ \A k \in 1..Len(rd[r].arr) :
               /\ rd[r].reads[k] = f + (k - 1)
               /\ rd[r].arr[k] = getTriangleVertexIndexes(SelfContent, f + (k - 1))

C1_Witness ==
  \E r \in Readers :
    /\ rd[r].pc = "done"
    /\ self_grid # NoneRef
    /\ Len(rd[r].arr) > 3
    /\ rd[r].level = 1

\* C2: triangles(tess, level) returns all the triangles of the level: a level
\* of N triangles gives N rows, the last triangle of the level among them.
C2_AllTrianglesOfLevel ==
  (last.op = "triangles" /\ last.outcome = "return") =>
    last.value = LevelTriangles(SelfContent, last.tess, last.level)

\* C3: vertices(tess, level) of a registered level returns one coordinate per
\* vertex the level's triangles refer to.
C3_VerticesOfLevel ==
  (/\ last.op = "vertices"
   /\ self_grid # NoneRef
   /\ Registered(SelfContent, last.tess, last.level)) =>
    /\ last.outcome = "return"
    /\ Len(last.value) = Cardinality(ReferencedVertices(SelfContent, last.tess, last.level))

\* the pair (tess, level) was never registered in the Grid's level index
NeverRegistered(tess, level) ==
  IF self_grid = NoneRef THEN TRUE ELSE ~Registered(SelfContent, tess, level)

\* C4 as stated: triangles(tess, level) of a pair that was never registered
\* fails with NotFound and returns no array.
C4_Original ==
  (last.op = "triangles" /\ NeverRegistered(last.tess, last.level)) =>
    /\ last.outcome = "raise"
    /\ last.err = "NotFound"
    /\ last.value = <<>>

\* C4, amended: triangles(tess, level) of a pair that was never registered
\* fails, with NotFound on a Grid that holds an engine and with
\* AttributeError on an empty Grid; it returns no array and leaves the grid
\* as it was.
C4_UnregisteredFails ==
  [][(/\ NeverRegistered(last'.tess, last'.level)
      /\ TrianglesStep) =>
       /\ last'.outcome = "raise"
       /\ last'.err = IF self_grid = NoneRef THEN "AttributeError" ELSE "NotFound"
       /\ last'.value = <<>>
       /\ UNCHANGED <<engines, constructed, self_grid>>]_vars

C4_Witness ==
  /\ last.op = "triangles"
  /\ last.err = "NotFound"
  /\ self_grid # NoneRef
  /\ engines[self_grid].file = IcoPath
  /\ last.tess = 0
  /\ last.level = 3

\* C5: two triangles(tess, level) calls on one Grid, with other queries in
\* between, return the same sequence of triples.
C5_Idempotent ==
  (/\ pin.set
   /\ last.op = "triangles"
   /\ last.tess = pin.tess
   /\ last.level = pin.level) =>
    /\ last.outcome = "return"
    /\ last.value = pin.value

C5_Witness ==
  /\ pin.set
  /\ pin.others
  /\ last.op = "triangles"
  /\ last.tess = pin.tess
  /\ last.level = pin.level
  /\ Len(pin.value) > 3

\* C6: no query changes the Grid's engine reference or any engine; only a
\* constructor assigns _grid.
C6_QueriesReadOnly ==
  [][/\ UNCHANGED <<engines, constructed, self_grid>> \/ ~Query
     /\ (self_grid' # self_grid \/ constructed' # constructed) => Constructor]_vars

C6_Witness ==
  /\ pin.set
  /\ pin.others
  /\ last.op = "vertices"
  /\ last.outcome = "raise"
  /\ self_grid # NoneRef
  /\ engines[self_grid].loads = <<engines[self_grid].file>>

\* C7: triangles(tess, level, masked) with masked=False returns only the
\* un-masked triangles of the level: no returned row is a masked triangle.
\* (With any other value of masked the claim asks for all the triangles of
\* the level, which is the statement of C2.)
C7_MaskedFilter ==
  (last.op = "triangles" /\ last.outcome = "return" /\ last.masked = "False") =>
    LET c == SelfContent
        all == LevelTriangles(c, last.tess, last.level)
        f == getFirstTriangle(c, last.tess, last.level)
        unmasked == {k \in 1..Len(all) : f + k - 1 \notin c.masked}
    IN  \A k \in 1..Len(last.value) : \E j \in unmasked : last.value[k] = all[j]

\* C8: under every interleaving of the readers' steps each reader gets what
\* it would get alone: the rows it has written are those of the sequential
\* result, and an exception is the one the sequential call raises.
C8_ReadersIndependent ==
  \A r \in Readers :
    LET alone == TrianglesOutcome(rd[r].tess, rd[r].level, "None")
    IN  /\ rd[r].pc \in {"l99", "done"} =>
              /\ alone.outcome = "return"
              /\ Len(rd[r].arr) = Len(alone.value)
              /\ \A k \in 1..rd[r].i : rd[r].arr[k] = alone.value[k]
        /\ rd[r].pc = "done" => rd[r].arr = alone.value
        /\ rd[r].pc = "raised" => (alone.outcome = "raise" /\ rd[r].err = alone.err)

C8_Witness ==
  \E r \in Readers, q \in Readers :
    /\ r # q
    /\ rd[r].pc = "done"
    /\ Len(rd[r].arr) > 3
    /\ rd[q].pc = "l99"
    /\ rd[q].i > 0
    /\ rd[q].i < Len(rd[q].ids)
    /\ <<rd[q].tess, rd[q].level>> # <<rd[r].tess, rd[r].level>>

\* C9: Grid() with None or another falsy gridfile is an empty Grid, with no
\* engine created and nothing loaded; Grid(path) creates a fresh engine and
\* calls loadGrid on it once, with that path, before it returns;
\* from_geotessgrid(g) gives a Grid whose _grid is g, with nothing loaded.
C9_Construction ==
  [][/\ \A gridfile \in GridfileArgs :
          GridInit(gridfile) =>
            IF gridfile \in {NoneArg, ""}
            THEN /\ last'.outcome = "return"
                 /\ constructed'
                 /\ self_grid' = NoneRef
                 /\ UNCHANGED engines
            ELSE IF last'.outcome = "return"
            THEN \E e \in EngineIds :
                   /\ ~engines[e].live
                   /\ engines'[e].live
                   /\ engines'[e].loads = <<gridfile>>
                   /\ engines'[e].file = gridfile
                   /\ \A f \in EngineIds \ {e} : engines'[f] = engines[f]
                   /\ constructed'
                   /\ self_grid' = e
            ELSE UNCHANGED <<engines, constructed, self_grid>>
     /\ \A gtgrid \in {NoneRef} \cup EngineIds :
          from_geotessgrid(gtgrid) =>
            /\ last'.outcome = "return"
            /\ constructed'
            /\ self_grid' = gtgrid
            /\ UNCHANGED engines]_vars

C9_Witness ==
  /\ last.op = "init"
  /\ last.outcome = "return"
  /\ last.file = MultiPath
  /\ self_grid = 2
  /\ engines[1].live
  /\ engines[2].loads = <<MultiPath>>

\* C10: on an empty Grid triangles() and __str__() end in an error, and the
\* Grid is still empty afterwards.
C10_EmptyGridQueriesFail ==
  [][(/\ constructed
      /\ self_grid = NoneRef
      /\ (TrianglesStep \/ StrStep)) =>
       /\ last'.outcome = "raise"
       /\ last'.value = <<>>
       /\ last'.text = ""
       /\ constructed'
       /\ self_grid' = NoneRef
       /\ UNCHANGED engines]_vars

C10_Witness ==
  /\ constructed
  /\ self_grid = NoneRef
  /\ last.op = "str"
  /\ last.outcome = "raise"
  /\ \E e \in EngineIds : engines[e].live

====
